---- MODULE Spec2Model ----
(***************************************************************************)
(* A model of lenticular-image-tool: the column mapper                     *)
(* (crates/core/src/lenticular/mod.rs), the output planner, compositor,    *)
(* resolution normalizer and TIFF writer (crates/core/src/lenticular/      *)
(* tiff.rs) and the command line run that drives them (bin/cli/src/        *)
(* main.rs).                                                               *)
(*                                                                         *)
(* Conventions.                                                            *)
(*  - A Rust Vec is a TLA+ sequence; the element at Rust index r is        *)
(*    v[r + 1].  Image indices, column indices and row indices keep the    *)
(*    0-based numbering of the source.                                     *)
(*  - An f64 is an exact rational <<n, d>> in lowest terms with d > 0.     *)
(*    The input sets below are chosen so that every `as u32` / floor()     *)
(*    taken by the code on these inputs gives the same integer in          *)
(*    IEEE-754 double arithmetic as in exact arithmetic.                   *)
(***************************************************************************)
EXTENDS Integers, Sequences, FiniteSets, TLC

(***************************************************************************)
(* Bounds of the model.                                                    *)
(***************************************************************************)
\* Largest number of images in a stripe-width table of the mapper harness.
MaxImages == 3
\* Largest stripe width drawn for the mapper harness.
MaxStripe == 3
\* Largest local width (number of columns) drawn for the mapper harness.
MaxCols == 6
\* Largest number of input files of a run.
MaxFiles == 2
\* Largest stripe width given on the command line.
MaxWidth == 2
\* The automatic width search is followed while its widest stripe is at most this.
MaxSearchWidth == 12
\* Largest width and height of the images of the normalizer harness.
MaxSide == 3

(***************************************************************************)
(* Vec helpers.                                                            *)
(***************************************************************************)
\* v[r] of the source, r counted from 0.
At(v, r) == v[r + 1]

RECURSIVE SumTake(_, _)
\* lenticular_width_map.iter().take(k).sum()
SumTake(v, k) == IF k = 0 THEN 0 ELSE SumTake(v, k - 1) + v[k]

\* lenticular_width_map.iter().sum()
SumAll(v) == SumTake(v, Len(v))

RECURSIVE MaxTake(_, _)
\* The maximum of the first k elements (k >= 1).
MaxTake(v, k) ==
    IF k = 1 THEN v[1]
    ELSE LET m == MaxTake(v, k - 1) IN IF v[k] > m THEN v[k] ELSE m

\* The mutated maximum: the first image's width is taken for the widest.
MaxAllFirst(v) == v[1]

\* lenticular_width_table.iter().max().unwrap()
MaxAll(v) == MaxTake(v, Len(v))

(***************************************************************************)
(* The column mapper.                                                      *)
(***************************************************************************)
\* The mutated loop body: the groups of one image follow each other at the
\* image's own width instead of the sum of all widths.
AbsIndexOwnStride(row_index, lenticular_width_px, total_lenticular_width_px, image_offset_px) ==
    LET group_index == row_index \div lenticular_width_px
        group_internal_offset_px == row_index % lenticular_width_px
        group_offset_px == group_index * lenticular_width_px
    IN  group_internal_offset_px + group_offset_px + image_offset_px

\* The destination of local column row_index: the body of the mapper's loop.
AbsIndex(row_index, lenticular_width_px, total_lenticular_width_px, image_offset_px) ==
    LET group_index == row_index \div lenticular_width_px
        group_internal_offset_px == row_index % lenticular_width_px
        group_offset_px == group_index * total_lenticular_width_px
    IN  group_internal_offset_px + group_offset_px + image_offset_px

\* The mutated mapper: the offset of the image is taken as for uniform widths,
\* img_index * own width, as the older create_line_index_mapping did.
create_line_index_mapping_uniform_offset(num_cols, lenticular_width_map, img_index) ==
    LET lenticular_width_px == At(lenticular_width_map, img_index)
        total_lenticular_width_px == SumAll(lenticular_width_map)
        image_offset_px == img_index * lenticular_width_px
    IN  [k \in 1..num_cols |->
            AbsIndex(k - 1, lenticular_width_px, total_lenticular_width_px,
                     image_offset_px)]

\* create_line_index_mapping_advanced(num_cols, lenticular_width_map, img_index);
\* img_index is 0-based.  Called with img_index < len and a positive own width
\* (or num_cols = 0): the source indexes the table and divides by the own width.
create_line_index_mapping_advanced(num_cols, lenticular_width_map, img_index) ==
    LET lenticular_width_px == At(lenticular_width_map, img_index)
        total_lenticular_width_px == SumAll(lenticular_width_map)
        image_offset_px == SumTake(lenticular_width_map, img_index)
    IN  [k \in 1..num_cols |->
            AbsIndex(k - 1, lenticular_width_px, total_lenticular_width_px,
                     image_offset_px)]

(***************************************************************************)
(* f64 values as exact rationals.                                          *)
(***************************************************************************)
\* Euclid's algorithm on the pair <<a, b>>.
GcdOf[p \in Nat \X Nat] ==
    IF p[2] = 0 THEN p[1] ELSE GcdOf[<<p[2], p[1] % p[2]>>]

\* num::integer::gcd
Gcd(a, b) == GcdOf[<<a, b>>]

\* The rational p[1] / p[2] in lowest terms.
RatOf[p \in Nat \X Nat] ==
    LET g == GcdOf[p] IN <<p[1] \div g, p[2] \div g>>

\* The rational n / d (n >= 0, d > 0) in lowest terms.
Rat(n, d) == RatOf[<<n, d>>]

\* `k as f64`
RInt(k) == <<k, 1>>

\* The product of the pair p of rationals; cancelled crosswise before
\* multiplying.
RMulOf[p \in (Nat \X Nat) \X (Nat \X Nat)] ==
    LET a == p[1]
        b == p[2]
        g1 == GcdOf[<<a[1], b[2]>>]
        g2 == GcdOf[<<b[1], a[2]>>]
    IN  RatOf[<<(a[1] \div g1) * (b[1] \div g2), (a[2] \div g2) * (b[2] \div g1)>>]

\* a * b
RMul(a, b) == RMulOf[<<a, b>>]

\* a / b, b > 0
RDiv(a, b) == RMul(a, <<b[2], b[1]>>)

\* (a as u32) and a.floor() for a >= 0
RFloor(a) == a[1] \div a[2]

\* a < b
RLess(a, b) == a[1] * b[2] < b[1] * a[2]

\* The mutated test: zero passes for positive.
RNotNegative(a) == a[1] >= 0

(***************************************************************************)
(* f64 arithmetic, bit by bit, where its rounding decides a result: a      *)
(* value is [m |-> the 53 bits of the significand, first bit first,        *)
(* e |-> the exponent of the first bit], 0 having all bits 0.              *)
(***************************************************************************)
\* The bits of the significand of an f64, the hidden bit counted.
F64Bits == 53

\* 0.0
F64Zero == [m |-> [n \in 1..F64Bits |-> 0], e |-> 0]

\* The sequences of bits.
Bits == Seq({0, 1})

\* The significand plus one unit in the last place, from bit n leftwards
\* (the significand is not all ones), for s = <<bits, n>>.
F64IncOf[s \in Bits \X Nat] ==
    IF s[1][s[2]] = 0 THEN [s[1] EXCEPT ![s[2]] = 1]
    ELSE F64IncOf[<<[s[1] EXCEPT ![s[2]] = 0], s[2] - 1>>]

F64Inc(bits, n) == F64IncOf[<<bits, n>>]

\* Round to nearest, ties to even: the significand kept, and whether what was
\* cut off makes it the next one.
F64Round(bits, e, up) ==
    IF ~up THEN [m |-> bits, e |-> e]
    ELSE IF \A n \in 1..F64Bits : bits[n] = 1
    THEN [m |-> [n \in 1..F64Bits |-> IF n = 1 THEN 1 ELSE 0], e |-> e + 1]
    ELSE [m |-> F64Inc(bits, F64Bits), e |-> e]

\* Long division: the next bit, of exponent e, of a quotient whose remainder
\* is r (r < 2 * t); stops after F64Bits bits from the first 1.  For
\* s = <<r, t, bits, e>>.
F64DivOf[s \in Nat \X Nat \X Bits \X Int] ==
    LET r == s[1]
        t == s[2]
        bits == s[3]
        e == s[4]
        b == IF r >= t THEN 1 ELSE 0
    IN  IF Len(bits) = F64Bits THEN [m |-> bits, e |-> e + F64Bits, r |-> r]
        ELSE IF b = 0 /\ bits = <<>>
        THEN F64DivOf[<<2 * r, t, bits, e - 1>>]
        ELSE F64DivOf[<<2 * (r - b * t), t, Append(bits, b), e - 1>>]

F64DivStep(r, t, bits, e) == F64DivOf[<<r, t, bits, e>>]

\* a as f64 / t as f64, for integers 0 <= a <= t, t > 0.
f64_div(a, t) ==
    IF a = 0 THEN F64Zero
    ELSE LET q == F64DivStep(a, t, <<>>, 0)
         IN  F64Round(q.m, q.e, q.r > t \/ (q.r = t /\ q.m[F64Bits] = 1))

\* The significand times the integer w, from bit n leftwards, for
\* s = <<bits, w, n, carry, acc>>.
F64MulOf[s \in Bits \X Nat \X Nat \X Nat \X Bits] ==
    LET bits == s[1]
        w == s[2]
        n == s[3]
        carry == s[4]
        acc == s[5]
        t == bits[n] * w + carry
    IN  IF n = 0 THEN [acc |-> acc, carry |-> carry]
        ELSE F64MulOf[<<bits, w, n - 1, t \div 2, <<t % 2>> \o acc>>]

F64MulStep(bits, w, n, carry, acc) == F64MulOf[<<bits, w, n, carry, acc>>]

RECURSIVE BitsOf(_)
\* The bits of a natural number, first bit first.
BitsOf(k) == IF k = 0 THEN <<>> ELSE Append(BitsOf(k \div 2), k % 2)

RECURSIVE BitsToInt(_)
\* The natural number of the bits.
BitsToInt(bits) ==
    IF bits = <<>> THEN 0
    ELSE 2 * BitsToInt(SubSeq(bits, 1, Len(bits) - 1)) + bits[Len(bits)]

\* x * (w as f64), for an integer w >= 0.
f64_mul(x, w) ==
    IF w = 0 \/ x.m[1] = 0 THEN F64Zero
    ELSE LET p == F64MulStep(x.m, w, F64Bits, 0, <<>>)
             all == BitsOf(p.carry) \o p.acc
             guard == IF Len(all) > F64Bits THEN all[F64Bits + 1] ELSE 0
             sticky == \E n \in (F64Bits + 2)..Len(all) : all[n] = 1
         IN  F64Round(SubSeq(all, 1, F64Bits), x.e + (Len(all) - F64Bits),
                      guard = 1 /\ (sticky \/ all[F64Bits] = 1))

\* x.floor() as u32, for x >= 0 below 2^31.
f64_floor(x) ==
    IF x.e < 0 THEN 0 ELSE BitsToInt(SubSeq(x.m, 1, x.e + 1))

\* a > 0.0
RPositive(a) == a[1] > 0

\* The factor of Params::physical_width_in, 0.3937
CmToInch == <<3937, 10000>>

\* The mutated conversion: centimetres divided by 2.54.
physical_width_in_exact(physical_width_cm) == RDiv(physical_width_cm, <<127, 50>>)

\* Params::physical_width_in
physical_width_in(physical_width_cm) == RMul(physical_width_cm, CmToInch)

(***************************************************************************)
(* Result values.                                                          *)
(***************************************************************************)
\* Ok(v)
Ok(v) == [ok |-> TRUE, val |-> v]

\* Err(kind): kind is the variant of error::Error ("InvalidInput", "Tiff",
\* "IO", "ImageBuffer"), "Cli" for an anyhow error raised by main itself, or
\* "Panic" for an unwrap() on an Err or None.
Err(kind) == [ok |-> FALSE, kind |-> kind]

\* Option::None; every value that may be absent is a record when present.
None == [none |-> TRUE]

\* The error of a run that has not failed.
NoError == "none"

\* tiff::ColorType, e.g. CMYK(8)
ColorType(space, bits) == [space |-> space, bits |-> bits]

(***************************************************************************)
(* Input files, as the tiff decoder sees them.                             *)
(*   exists : File::open succeeds                                          *)
(*   tiff   : Decoder::new succeeds (the stream is a TIFF)                 *)
(*   color  : the decoder's ColorType                                      *)
(*   chans  : samples per pixel of the decoded buffer                      *)
(*   tags   : ResolutionUnit, XResolution and YResolution are present      *)
(***************************************************************************)
\* A file on disk holding a TIFF image.
TiffFile(color, chans, width, height, tags) ==
    [exists |-> TRUE, tiff |-> TRUE, color |-> color, chans |-> chans,
     width |-> width, height |-> height, tags |-> tags]

\* read_params_from_tiff(decoder, read_tags)
read_params_from_tiff(file, read_tags) ==
    IF read_tags /\ ~file.tags
    THEN Err("Tiff")
    ELSE Ok([color_type |-> file.color, width |-> file.width,
             height |-> file.height])

\* is_matching_params(base, other)
is_matching_params(base, other) ==
    /\ other.color_type # None
    /\ base.color_type = other.color_type
    /\ base.width = other.width
    /\ base.height = other.height

(***************************************************************************)
(* The output planner.                                                     *)
(***************************************************************************)
\* The table of stripe widths of the inputs:
\* inputs.iter().map(|c| c.image_options.lenticular_width_px).collect()
WidthTable(ins) == [k \in 1..Len(ins) |-> ins[k].lenticular_width_px]

\* The mutated plan: the LPI is divided by the widest stripe.
PlanForDpiDivided(source_params, lenticular_width_table, p_lpi, physical_width_cm) ==
    LET max_lenticular_width_px == MaxAll(lenticular_width_table)
        total_lenticular_width_px == SumAll(lenticular_width_table)
        dpi == RDiv(p_lpi, RInt(max_lenticular_width_px))
        dpi_w == RMul(dpi, RDiv(RInt(total_lenticular_width_px),
                                RInt(max_lenticular_width_px)))
        f_scale == RDiv(RMul(dpi, physical_width_in(physical_width_cm)),
                        RInt(source_params.width))
        f_scale_extra_w == RDiv(RInt(total_lenticular_width_px),
                                RInt(max_lenticular_width_px))
        output_width_px ==
            RFloor(RMul(RMul(RInt(source_params.width), f_scale), f_scale_extra_w))
        output_height_px == RFloor(RMul(RInt(source_params.height), f_scale))
    IN  [width |-> output_width_px, height |-> output_height_px,
         dpi_w |-> dpi_w, dpi_h |-> dpi, source_params |-> source_params]

\* The mutated plan: the two DPI are stored in each other's place.
PlanForDpiSwapped(source_params, lenticular_width_table, p_lpi, physical_width_cm) ==
    LET max_lenticular_width_px == MaxAll(lenticular_width_table)
        total_lenticular_width_px == SumAll(lenticular_width_table)
        dpi == RMul(p_lpi, RInt(max_lenticular_width_px))
        dpi_w == RMul(dpi, RDiv(RInt(total_lenticular_width_px),
                                RInt(max_lenticular_width_px)))
        f_scale == RDiv(RMul(dpi, physical_width_in(physical_width_cm)),
                        RInt(source_params.width))
        f_scale_extra_w == RDiv(RInt(total_lenticular_width_px),
                                RInt(max_lenticular_width_px))
        output_width_px ==
            RFloor(RMul(RMul(RInt(source_params.width), f_scale), f_scale_extra_w))
        output_height_px == RFloor(RMul(RInt(source_params.height), f_scale))
    IN  [width |-> output_width_px, height |-> output_height_px,
         dpi_w |-> dpi, dpi_h |-> dpi_w, source_params |-> source_params]

\* The arithmetic of calc_output_info on a baseline and a width table.
PlanFor(source_params, lenticular_width_table, p_lpi, physical_width_cm) ==
    LET max_lenticular_width_px == MaxAll(lenticular_width_table)
        total_lenticular_width_px == SumAll(lenticular_width_table)
        dpi == RMul(p_lpi, RInt(max_lenticular_width_px))
        dpi_w == RMul(dpi, RDiv(RInt(total_lenticular_width_px),
                                RInt(max_lenticular_width_px)))
        f_scale == RDiv(RMul(dpi, physical_width_in(physical_width_cm)),
                        RInt(source_params.width))
        f_scale_extra_w == RDiv(RInt(total_lenticular_width_px),
                                RInt(max_lenticular_width_px))
        output_width_px ==
            RFloor(RMul(RMul(RInt(source_params.width), f_scale), f_scale_extra_w))
        output_height_px == RFloor(RMul(RInt(source_params.height), f_scale))
    IN  [width |-> output_width_px, height |-> output_height_px,
         dpi_w |-> dpi_w, dpi_h |-> dpi, source_params |-> source_params]

\* calc_output_info(inputs, options): the result.  The first reader is at the
\* start of its file when this is called.
calc_output_info(ins, p_lpi, physical_width_cm) ==
    IF Len(ins) = 0 THEN Err("InvalidInput")
    ELSE IF ~ins[1].file.tiff THEN Err("Panic")
    ELSE LET sp == read_params_from_tiff(ins[1].file, TRUE)
         IN  IF ~sp.ok THEN sp
             ELSE Ok(PlanFor(sp.val, WidthTable(ins), p_lpi, physical_width_cm))

\* The mutated planner: the first reader is left where the decoder stopped.
InputsAfterCalcNoSeek(ins) ==
    IF Len(ins) = 0 THEN ins ELSE [ins EXCEPT ![1].pos = 1]

\* calc_output_info(inputs, options): the inputs afterwards.  The first
\* reader is rewound only when the baseline was read.
InputsAfterCalc(ins) ==
    IF Len(ins) = 0 THEN ins
    ELSE IF ins[1].file.tiff /\ read_params_from_tiff(ins[1].file, TRUE).ok
         THEN [ins EXCEPT ![1].pos = 0]
         ELSE [ins EXCEPT ![1].pos = 1]

(***************************************************************************)
(* Pixel matrices.  mat[c][r] is the pixel in column c and row r, both     *)
(* counted from 0: the Array2 of shape (height, width) read by column.     *)
(***************************************************************************)
\* Cmyk8Color::default()
ZeroPixel == [c |-> 0, m |-> 0, y |-> 0, k |-> 0]

\* The mutated constructor: the shape is taken as (width, height).
MatrixImageNewTransposed(width, height) ==
    [width |-> height, height |-> width,
     mat |-> [c \in 0..(height - 1) |-> [r \in 0..(width - 1) |-> ZeroPixel]],
     info |-> None]

\* MatrixImage::new(width, height)
MatrixImageNew(width, height) ==
    [width |-> width, height |-> height,
     mat |-> [c \in 0..(width - 1) |-> [r \in 0..(height - 1) |-> ZeroPixel]],
     info |-> None]

\* The mutated wrapper: the buffer is read column by column.
MatrixImageFromSliceTransposed(data, width, height) ==
    IF Len(data) # 4 * width * height
    THEN Err("InternalArrayError")
    ELSE Ok([width |-> width, height |-> height,
             mat |-> [c \in 0..(width - 1) |-> [r \in 0..(height - 1) |->
                        LET b == 4 * (c * height + r)
                        IN  [c |-> data[b + 1], m |-> data[b + 2],
                             y |-> data[b + 3], k |-> data[b + 4]]]],
             info |-> None])

\* MatrixImage::from_slice(data, width, height): Cmyk8Color::from_slice cuts
\* the bytes into chunks of 4, the shape (height, width) is row-major.
MatrixImageFromSlice(data, width, height) ==
    IF Len(data) # 4 * width * height
    THEN Err("InternalArrayError")
    ELSE Ok([width |-> width, height |-> height,
             mat |-> [c \in 0..(width - 1) |-> [r \in 0..(height - 1) |->
                        LET b == 4 * (r * width + c)
                        IN  [c |-> data[b + 1], m |-> data[b + 2],
                             y |-> data[b + 3], k |-> data[b + 4]]]],
             info |-> None])

\* MatrixImage::to_bytes: the pixels in row-major order, 4 bytes each.
to_bytes(img) ==
    [n \in 1..(4 * img.width * img.height) |->
        LET p == (n - 1) \div 4
            px == img.mat[p % img.width][p \div img.width]
            ch == (n - 1) % 4
        IN  IF ch = 0 THEN px.c ELSE IF ch = 1 THEN px.m
            ELSE IF ch = 2 THEN px.y ELSE px.k]

\* The bytes the external resampler returns for a target of out_width x
\* out_height: a pattern that names the source (tag), the row and the column
\* of every pixel.
ResizedBytes(tag, out_width, out_height) ==
    [n \in 1..(4 * out_width * out_height) |->
        LET p == (n - 1) \div 4
            ch == (n - 1) % 4
        IN  IF ch = 0 THEN tag
            ELSE IF ch = 1 THEN (p \div out_width) % 256
            ELSE IF ch = 2 THEN (p % out_width) % 256
            ELSE 255]

\* resize_cmyk8(src, width, height, out_width, out_height, alg); src_len is
\* src.len(), tag names the source buffer in the returned pattern.
resize_cmyk8(tag, src_len, width, height, out_width, out_height) ==
    IF height = 0 \/ width = 0 \/ out_height = 0 \/ out_width = 0
    THEN Err("InvalidInput")
    ELSE IF src_len < 4 * width * height
    THEN Err("ImageBuffer")
    ELSE Ok(ResizedBytes(tag, out_width, out_height))

(***************************************************************************)
(* The compositor, one image at a time.                                    *)
(***************************************************************************)
\* The mutated target: the whole planned width, whatever the image's share.
TargetWidthUnscaled(lenticular_width_px, total_lenticular_width_px, info) ==
    info.width

\* target_width_px of process_tiff_cmyk8
TargetWidth(lenticular_width_px, total_lenticular_width_px, info) ==
    LET width_ratio == f64_div(lenticular_width_px, total_lenticular_width_px)
    IN  f64_floor(f64_mul(width_ratio, info.width))

\* The part of the closure of process_tiff_cmyk8 that ends with col_mapping:
\* decode, compare with the baseline, resample, wrap, map.
LoadImage(input_ctx, input_index, info, lenticular_width_table) ==
    LET file == input_ctx.file
        img_params == read_params_from_tiff(file, FALSE).val
        total_lenticular_width_px == SumAll(lenticular_width_table)
        target_width_px ==
            TargetWidth(input_ctx.lenticular_width_px, total_lenticular_width_px, info)
        target_height_px == info.height
        resized_res ==
            resize_cmyk8(input_index + 1, file.width * file.height * file.chans,
                         img_params.width, img_params.height,
                         target_width_px, target_height_px)
    IN  IF ~file.tiff THEN Err("Tiff")
        ELSE IF ~is_matching_params(info.source_params, img_params)
        THEN Err("InvalidInput")
        ELSE IF file.color.bits # 8 THEN Err("InvalidInput")
        ELSE IF ~resized_res.ok THEN resized_res
        ELSE LET input_img ==
                    MatrixImageFromSlice(resized_res.val, target_width_px, info.height)
             IN  IF ~input_img.ok THEN input_img
                 ELSE Ok([input_img |-> input_img.val,
                          col_mapping |->
                              create_line_index_mapping_advanced(
                                  input_img.val.width, lenticular_width_table,
                                  input_index)])

\* The mutated edge test: a destination equal to the width is let through.
OutOfRangeOffByOne(target_index, output_width) == target_index > output_width

\* if target_index >= output_width { ...; return; }
OutOfRange(target_index, output_width) == target_index >= output_width

\* The mutated assignment: the column is assigned along Axis(0), into the row
\* of that index.
AssignColumnAxis0(out, target_index, input_column) ==
    [out EXCEPT !.mat =
        [c \in DOMAIN out.mat |-> [r \in DOMAIN out.mat[c] |->
            IF r = target_index /\ c \in DOMAIN input_column
            THEN input_column[c] ELSE out.mat[c][r]]]]

\* output_mat.index_axis_mut(Axis(1), target_index).assign(&input_column)
AssignColumn(out, target_index, input_column) ==
    [out EXCEPT !.mat[target_index] = input_column]

(***************************************************************************)
(* The resolution normalizer.                                              *)
(***************************************************************************)
\* The mutated normalizer: the branches of the scale factor are swapped.
restore_resolution_cmyk8_swapped(image) ==
    IF image.info = None THEN Err("InvalidInput")
    ELSE IF image.info.dpi_h = image.info.dpi_w THEN Ok(image)
    ELSE
      LET info == image.info
          scale_factor == RDiv(info.dpi_h, info.dpi_w)
          wide == RLess(scale_factor, RInt(1))
          target_width_px ==
              IF wide THEN RFloor(RMul(RInt(image.width), scale_factor))
              ELSE image.width
          target_height_px ==
              IF wide THEN image.height
              ELSE RFloor(RDiv(RInt(image.height), scale_factor))
          dpi == IF wide THEN info.dpi_h ELSE info.dpi_w
          resized_res ==
              resize_cmyk8(0, Len(to_bytes(image)), image.width, image.height,
                           target_width_px, target_height_px)
      IN  IF ~resized_res.ok THEN resized_res
          ELSE LET out == MatrixImageFromSlice(resized_res.val, target_width_px,
                                               target_height_px)
               IN  IF ~out.ok THEN out
                   ELSE Ok([out.val EXCEPT
                               !.info = [dpi_h |-> dpi, dpi_w |-> dpi]])

\* The mutated normalizer: the result keeps the DPI of the image given.
restore_resolution_cmyk8_keeps_info(image) ==
    IF image.info = None THEN Err("InvalidInput")
    ELSE IF image.info.dpi_h = image.info.dpi_w THEN Ok(image)
    ELSE
      LET info == image.info
          scale_factor == RDiv(info.dpi_h, info.dpi_w)
          wide == RLess(RInt(1), scale_factor)
          target_width_px ==
              IF wide THEN RFloor(RMul(RInt(image.width), scale_factor))
              ELSE image.width
          target_height_px ==
              IF wide THEN image.height
              ELSE RFloor(RDiv(RInt(image.height), scale_factor))
          dpi == IF wide THEN info.dpi_h ELSE info.dpi_w
          resized_res ==
              resize_cmyk8(0, Len(to_bytes(image)), image.width, image.height,
                           target_width_px, target_height_px)
      IN  IF ~resized_res.ok THEN resized_res
          ELSE LET out == MatrixImageFromSlice(resized_res.val, target_width_px,
                                               target_height_px)
               IN  IF ~out.ok THEN out
                   ELSE Ok([out.val EXCEPT !.info = info])

\* The mutated normalizer: an image without DPI is returned as it is.
restore_resolution_cmyk8_no_info_ok(image) ==
    IF image.info = None THEN Ok(image)
    ELSE IF image.info.dpi_h = image.info.dpi_w THEN Ok(image)
    ELSE
      LET info == image.info
          scale_factor == RDiv(info.dpi_h, info.dpi_w)
          wide == RLess(RInt(1), scale_factor)
          target_width_px ==
              IF wide THEN RFloor(RMul(RInt(image.width), scale_factor))
              ELSE image.width
          target_height_px ==
              IF wide THEN image.height
              ELSE RFloor(RDiv(RInt(image.height), scale_factor))
          dpi == IF wide THEN info.dpi_h ELSE info.dpi_w
          resized_res ==
              resize_cmyk8(0, Len(to_bytes(image)), image.width, image.height,
                           target_width_px, target_height_px)
      IN  IF ~resized_res.ok THEN resized_res
          ELSE LET out == MatrixImageFromSlice(resized_res.val, target_width_px,
                                               target_height_px)
               IN  IF ~out.ok THEN out
                   ELSE Ok([out.val EXCEPT
                               !.info = [dpi_h |-> dpi, dpi_w |-> dpi]])

\* The resize_cmyk8 calls restore_resolution_cmyk8(image) makes, as
\* <<width, height, target_width_px, target_height_px>>: none without DPI or
\* with equal DPI, one otherwise.
RestoreResizeCalls(image) ==
    IF image.info = None THEN <<>>
    ELSE IF image.info.dpi_h = image.info.dpi_w THEN <<>>
    ELSE LET scale_factor == RDiv(image.info.dpi_h, image.info.dpi_w)
         IN  IF RLess(RInt(1), scale_factor)
             THEN << <<image.width, image.height,
                       RFloor(RMul(RInt(image.width), scale_factor)), image.height>> >>
             ELSE << <<image.width, image.height, image.width,
                       RFloor(RDiv(RInt(image.height), scale_factor))>> >>

\* restore_resolution_cmyk8(image)
restore_resolution_cmyk8(image) ==
    IF image.info = None THEN Err("InvalidInput")
    ELSE IF image.info.dpi_h = image.info.dpi_w THEN Ok(image)
    ELSE
      LET info == image.info
          scale_factor == RDiv(info.dpi_h, info.dpi_w)
          wide == RLess(RInt(1), scale_factor)
          target_width_px ==
              IF wide THEN RFloor(RMul(RInt(image.width), scale_factor))
              ELSE image.width
          target_height_px ==
              IF wide THEN image.height
              ELSE RFloor(RDiv(RInt(image.height), scale_factor))
          dpi == IF wide THEN info.dpi_h ELSE info.dpi_w
          resized_res ==
              resize_cmyk8(0, Len(to_bytes(image)), image.width, image.height,
                           target_width_px, target_height_px)
      IN  IF ~resized_res.ok THEN resized_res
          ELSE LET out == MatrixImageFromSlice(resized_res.val, target_width_px,
                                               target_height_px)
               IN  IF ~out.ok THEN out
                   ELSE Ok([out.val EXCEPT
                               !.info = [dpi_h |-> dpi, dpi_w |-> dpi]])

(***************************************************************************)
(* State.                                                                  *)
(***************************************************************************)
VARIABLES
    pc,                     \* the position of main
    err,                    \* the error main ended with, or NoError
    failed_in,              \* history: the function that returned the error
    cli,                    \* the parsed command line (struct Cli)
    inputs,                 \* Vec<InputImageContext>: file, reader position, width
    output_info,            \* the OutputInfo main holds
    delta,                  \* the step of the automatic width search
    best_lenticular_width,  \* the widths the search is trying
    output_img,             \* the composite of process_tiff_cmyk8
    input_index,            \* the image process_tiff_cmyk8 is at
    input_img,              \* its resampled buffer
    col_mapping,            \* its column mapping
    col_index,              \* the local column the write loop is at
    writes,                 \* history: <<image, local column, destination>> of every column written
    skipped,                \* history: the same for every column skipped
    output_file,            \* the output destination
    out_restored,           \* the normalized image write_tiff_cmyk8 holds
    m_widths,               \* mapper harness: the stripe-width table
    m_calls,                \* mapper harness: the calls to make, <<img_index, num_cols>>
    m_out,                  \* mapper harness: the vectors returned so far
    r_image,                \* normalizer harness: the image given to the first call
    r_out,                  \* normalizer harness: the results returned so far
    r_resized               \* normalizer harness: history of the resize_cmyk8 calls made

vars == <<pc, err, failed_in, cli, inputs, output_info, delta, best_lenticular_width,
          output_img, input_index, input_img, col_mapping, col_index, writes,
          skipped, output_file, out_restored, m_widths, m_calls, m_out,
          r_image, r_out, r_resized>>

searchVars == <<delta, best_lenticular_width>>
processVars == <<output_img, input_index, input_img, col_mapping, col_index,
                 writes, skipped>>
writeVars == <<output_file, out_restored>>
mapperVars == <<m_widths, m_calls, m_out>>
restoreVars == <<r_image, r_out, r_resized>>

\* The output destination before main opens it.
NoFile == [created |-> FALSE, truncated |-> FALSE, header |-> FALSE,
           tags |-> None, dims |-> None, data |-> <<>>]

(***************************************************************************)
(* main of the command line tool.                                          *)
(***************************************************************************)
\* main returns the error of kind `kind` that `where` raised.
Fail(kind, where) == pc' = "failed" /\ err' = kind /\ failed_in' = where

\* No error in this step.
NoFail == err' = err /\ failed_in' = failed_in

\* The checks of the arguments and the fan-out of a single width.
Validate ==
    /\ pc = "validate"
    /\ LET lw == cli.lenticular_width
           fanned == IF Len(lw) = 1 /\ Len(cli.input) > 1
                     THEN [k \in 1..Len(cli.input) |-> lw[1]]
                     ELSE lw
           early == \/ Len(cli.input) = 0
                    \/ (Len(lw) > 1 /\ Len(cli.input) # Len(lw))
                    \/ \E k \in 1..Len(lw) : lw[k] = 0
       IN  /\ cli' = IF early THEN cli ELSE [cli EXCEPT !.lenticular_width = fanned]
           /\ IF early \/ ~RPositive(cli.lpi) \/ ~RPositive(cli.output_width)
              THEN Fail("Cli", "main")
              ELSE pc' = "open_inputs" /\ NoFail
    /\ UNCHANGED <<inputs, output_info, searchVars, processVars, writeVars,
                   mapperVars, restoreVars>>

\* The smaller of two lengths: what zip() stops at.
Min(a, b) == IF a < b THEN a ELSE b

\* Opening the input files, paired with their widths.
OpenInputs ==
    /\ pc = "open_inputs"
    /\ LET n == Min(Len(cli.input), Len(cli.lenticular_width))
       IN  IF \E k \in 1..n : ~cli.input[k].exists
           THEN Fail("Cli", "main") /\ inputs' = inputs
           ELSE /\ inputs' = [k \in 1..n |->
                                [file |-> cli.input[k], pos |-> 0,
                                 lenticular_width_px |-> cli.lenticular_width[k]]]
                /\ pc' = "calc"
                /\ NoFail
    /\ UNCHANGED <<cli, output_info, searchVars, processVars, writeVars,
                   mapperVars, restoreVars>>

\* let mut output_info = opt.calc_output_info(&mut inputs)?
CalcFirst ==
    /\ pc = "calc"
    /\ LET res == calc_output_info(inputs, cli.lpi, cli.output_width)
       IN  /\ inputs' = InputsAfterCalc(inputs)
           /\ IF res.ok
              THEN output_info' = res.val /\ pc' = "auto" /\ NoFail
              ELSE output_info' = output_info /\ Fail(res.kind, "calc_output_info")
    /\ UNCHANGED <<cli, searchVars, processVars, writeVars, mapperVars, restoreVars>>

RECURSIVE GcdTake(_, _)
\* The gcd of the first k widths (k >= 1).
GcdTake(v, k) == IF k = 1 THEN v[1] ELSE Gcd(GcdTake(v, k - 1), v[k])

\* The mutated reduction: the first width is taken for the gcd.
GcdAllFirst(v) == IF Len(v) = 0 THEN 1 ELSE v[1]

\* cli.lenticular_width.iter().cloned().reduce(gcd).unwrap_or(1)
GcdAll(v) == IF Len(v) = 0 THEN 1 ELSE GcdTake(v, Len(v))

\* The mutated set-up: the step is the widths themselves, not divided by
\* their gcd.
AutoAssignWholeStep ==
    /\ pc = "auto"
    /\ IF ~cli.no_auto_assign_width
          /\ output_info.height < output_info.source_params.height
       THEN /\ delta' = [k \in 1..Len(cli.lenticular_width) |->
                            cli.lenticular_width[k]]
            /\ best_lenticular_width' = cli.lenticular_width
            /\ pc' = "search"
       ELSE /\ UNCHANGED searchVars
            /\ pc' = "process"
    /\ UNCHANGED <<err, failed_in, cli, inputs, output_info, processVars, writeVars,
                   mapperVars, restoreVars>>

\* The test that starts the automatic width search, and its set-up.
AutoAssign ==
    /\ pc = "auto"
    /\ IF ~cli.no_auto_assign_width
          /\ output_info.height < output_info.source_params.height
       THEN /\ delta' = [k \in 1..Len(cli.lenticular_width) |->
                            cli.lenticular_width[k] \div GcdAll(cli.lenticular_width)]
            /\ best_lenticular_width' = cli.lenticular_width
            /\ pc' = "search"
       ELSE /\ UNCHANGED searchVars
            /\ pc' = "process"
    /\ UNCHANGED <<err, failed_in, cli, inputs, output_info, processVars, writeVars,
                   mapperVars, restoreVars>>

\* The mutated write-back: the widths tried are not stored in the inputs.
ApplyWidthsDropped(ins, best) == ins

\* inputs.iter_mut().zip(best).for_each(|(input, w)| ... lenticular_width_px = *w)
ApplyWidths(ins, best) ==
    [k \in 1..Len(ins) |->
        IF k <= Len(best) THEN [ins[k] EXCEPT !.lenticular_width_px = best[k]]
        ELSE ins[k]]

\* The mutated turn: the widths are enlarged before the height is tested, so
\* the widths stored after the break are one step past the plan's.
SearchIterStepsFirst ==
    /\ pc = "search"
    /\ MaxAll(best_lenticular_width) <= MaxSearchWidth
    /\ LET applied == ApplyWidths(inputs, best_lenticular_width)
           res == calc_output_info(applied, cli.lpi, cli.output_width)
       IN  IF ~res.ok
           THEN /\ inputs' = InputsAfterCalc(applied)
                /\ Fail(res.kind, "calc_output_info")
                /\ UNCHANGED <<output_info, best_lenticular_width>>
           ELSE /\ output_info' = res.val
                /\ NoFail
                /\ IF res.val.height >= res.val.source_params.height
                   THEN /\ best_lenticular_width' =
                              [k \in 1..Len(best_lenticular_width) |->
                                  IF k <= Len(delta)
                                  THEN best_lenticular_width[k] + delta[k]
                                  ELSE best_lenticular_width[k]]
                        /\ inputs' = ApplyWidths(InputsAfterCalc(applied),
                                                 best_lenticular_width')
                        /\ pc' = "process"
                   ELSE /\ inputs' = InputsAfterCalc(applied)
                        /\ best_lenticular_width' =
                              [k \in 1..Len(best_lenticular_width) |->
                                  IF k <= Len(delta)
                                  THEN best_lenticular_width[k] + delta[k]
                                  ELSE best_lenticular_width[k]]
                        /\ pc' = "search"
    /\ UNCHANGED <<cli, delta, processVars, writeVars, mapperVars, restoreVars>>

\* One turn of the loop of the automatic width search; on break, the widths
\* found are stored in the inputs once more and main goes on.
SearchIter ==
    /\ pc = "search"
    /\ MaxAll(best_lenticular_width) <= MaxSearchWidth
    /\ LET applied == ApplyWidths(inputs, best_lenticular_width)
           res == calc_output_info(applied, cli.lpi, cli.output_width)
       IN  IF ~res.ok
           THEN /\ inputs' = InputsAfterCalc(applied)
                /\ Fail(res.kind, "calc_output_info")
                /\ UNCHANGED <<output_info, best_lenticular_width>>
           ELSE /\ output_info' = res.val
                /\ NoFail
                /\ IF res.val.height >= res.val.source_params.height
                   THEN /\ inputs' = ApplyWidths(InputsAfterCalc(applied),
                                                 best_lenticular_width)
                        /\ best_lenticular_width' = best_lenticular_width
                        /\ pc' = "process"
                   ELSE /\ inputs' = InputsAfterCalc(applied)
                        /\ best_lenticular_width' =
                              [k \in 1..Len(best_lenticular_width) |->
                                  IF k <= Len(delta)
                                  THEN best_lenticular_width[k] + delta[k]
                                  ELSE best_lenticular_width[k]]
                        /\ pc' = "search"
    /\ UNCHANGED <<cli, delta, processVars, writeVars, mapperVars, restoreVars>>

(***************************************************************************)
(* process_tiff_cmyk8, as main calls it.                                   *)
(***************************************************************************)
\* The entry of process_tiff_cmyk8: the empty check and the zero-filled composite.
ProcessBegin ==
    /\ pc = "process"
    /\ IF Len(inputs) = 0
       THEN Fail("InvalidInput", "process_tiff_cmyk8")
            /\ UNCHANGED <<output_img, input_index>>
       ELSE /\ output_img' = MatrixImageNew(output_info.width, output_info.height)
            /\ input_index' = 0
            /\ pc' = "image"
            /\ NoFail
    /\ UNCHANGED <<cli, inputs, output_info, searchVars, input_img, col_mapping,
                   col_index, writes, skipped, writeVars, mapperVars, restoreVars>>

\* The closure of try_for_each for the next image, up to its column mapping.
ProcessImage ==
    /\ pc = "image"
    /\ input_index < Len(inputs)
    /\ LET res == LoadImage(At(inputs, input_index), input_index, output_info,
                            WidthTable(inputs))
       IN  /\ inputs' = [inputs EXCEPT ![input_index + 1].pos = 1]
           /\ IF res.ok
              THEN /\ input_img' = res.val.input_img
                   /\ col_mapping' = res.val.col_mapping
                   /\ col_index' = 0
                   /\ pc' = "columns"
                   /\ NoFail
              ELSE /\ Fail(res.kind, "process_tiff_cmyk8")
                   /\ UNCHANGED <<input_img, col_mapping, col_index>>
    /\ UNCHANGED <<cli, output_info, searchVars, output_img, input_index, writes,
                   skipped, writeVars, mapperVars, restoreVars>>

\* One turn of the column loop: the column is written, or skipped when its
\* destination is past the composite's edge.
ProcessColumn ==
    /\ pc = "columns"
    /\ col_index < input_img.width
    /\ LET target_index == At(col_mapping, col_index)
           output_width == output_img.width
       IN  IF OutOfRange(target_index, output_width)
           THEN /\ skipped' = Append(skipped, <<input_index, col_index, target_index>>)
                /\ UNCHANGED <<output_img, writes>>
           ELSE /\ output_img' = AssignColumn(output_img, target_index,
                                              input_img.mat[col_index])
                /\ writes' = Append(writes, <<input_index, col_index, target_index>>)
                /\ skipped' = skipped
    /\ col_index' = col_index + 1
    /\ UNCHANGED <<pc, err, failed_in, cli, inputs, output_info, searchVars, input_index,
                   input_img, col_mapping, writeVars, mapperVars, restoreVars>>

\* The closure returns Ok(()): on to the next image.
ProcessImageDone ==
    /\ pc = "columns"
    /\ col_index = input_img.width
    /\ input_index' = input_index + 1
    /\ pc' = "image"
    /\ UNCHANGED <<err, failed_in, cli, inputs, output_info, searchVars, output_img,
                   input_img, col_mapping, col_index, writes, skipped, writeVars,
                   mapperVars, restoreVars>>

\* After the last image: the DPI is attached and the composite returned.
ProcessEnd ==
    /\ pc = "image"
    /\ input_index = Len(inputs)
    /\ output_img' = [output_img EXCEPT
                         !.info = [dpi_h |-> output_info.dpi_h,
                                   dpi_w |-> output_info.dpi_w]]
    /\ pc' = "open_output"
    /\ UNCHANGED <<err, failed_in, cli, inputs, output_info, searchVars, input_index,
                   input_img, col_mapping, col_index, writes, skipped, writeVars,
                   mapperVars, restoreVars>>

(***************************************************************************)
(* The output file and write_tiff_cmyk8.                                   *)
(***************************************************************************)
\* OpenOptions::new().create(true).truncate(true).write(true).open(&cli.output)
OpenOutput ==
    /\ pc = "open_output"
    /\ output_file' = [output_file EXCEPT !.created = TRUE, !.truncated = TRUE]
    /\ pc' = "encoder"
    /\ UNCHANGED <<err, failed_in, cli, inputs, output_info, searchVars, processVars,
                   out_restored, mapperVars, restoreVars>>

\* TiffEncoder::new(writer): the encoder writes the TIFF header.
WriteEncoderNew ==
    /\ pc = "encoder"
    /\ output_file' = [output_file EXCEPT !.header = TRUE]
    /\ pc' = "restore"
    /\ UNCHANGED <<err, failed_in, cli, inputs, output_info, searchVars, processVars,
                   out_restored, mapperVars, restoreVars>>

\* let out_restored = restore_resolution_cmyk8(out)?
WriteRestore ==
    /\ pc = "restore"
    /\ LET res == restore_resolution_cmyk8(output_img)
       IN  IF res.ok
           THEN out_restored' = res.val /\ pc' = "encode" /\ NoFail
           ELSE out_restored' = out_restored /\ Fail(res.kind, "write_tiff_cmyk8")
    /\ UNCHANGED <<cli, inputs, output_info, searchVars, processVars,
                   output_file, mapperVars, restoreVars>>

\* Rational { n: (dpi * 10000.0) as u32, d: 10000 }
ResolutionTag(dpi) == <<RFloor(RMul(dpi, RInt(10000))), 10000>>

\* The mutated writer: the composite is encoded as process_tiff_cmyk8 made it.
WriteImageUnrestored ==
    /\ pc = "encode"
    /\ output_file' =
          [output_file EXCEPT
              !.dims = [width |-> output_img.width, height |-> output_img.height],
              !.tags = IF output_img.info = None THEN None
                       ELSE [ResolutionUnit |-> 2,
                             XResolution |-> ResolutionTag(output_img.info.dpi_w),
                             YResolution |-> ResolutionTag(output_img.info.dpi_h)],
              !.data = to_bytes(output_img)]
    /\ pc' = "done"
    /\ UNCHANGED <<err, failed_in, cli, inputs, output_info, searchVars, processVars,
                   out_restored, mapperVars, restoreVars>>

\* new_image, the tags and write_data; then main returns Ok(()).
WriteImage ==
    /\ pc = "encode"
    /\ output_file' =
          [output_file EXCEPT
              !.dims = [width |-> out_restored.width, height |-> out_restored.height],
              !.tags = IF out_restored.info = None THEN None
                       ELSE [ResolutionUnit |-> 2,
                             XResolution |-> ResolutionTag(out_restored.info.dpi_w),
                             YResolution |-> ResolutionTag(out_restored.info.dpi_h)],
              !.data = to_bytes(out_restored)]
    /\ pc' = "done"
    /\ UNCHANGED <<err, failed_in, cli, inputs, output_info, searchVars, processVars,
                   out_restored, mapperVars, restoreVars>>

(***************************************************************************)
(* The runs of the command line tool that are followed.                    *)
(***************************************************************************)
\* An 8-bit CMYK TIFF with resolution tags.
Cmyk8File(w, h) == TiffFile(ColorType("CMYK", 8), 4, w, h, TRUE)

\* The ways one input file may differ from a good w x h CMYK8 file.
OddKinds == {"height", "width", "cmyk16", "rgb8", "not_tiff", "missing", "no_tags"}

\* The file of the given odd kind.
OddFile(kind, w, h) ==
    CASE kind = "height"   -> Cmyk8File(w, h - 1)
      [] kind = "width"    -> Cmyk8File(w - 1, h)
      [] kind = "cmyk16"   -> TiffFile(ColorType("CMYK", 16), 4, w, h, TRUE)
      [] kind = "rgb8"     -> TiffFile(ColorType("RGB", 8), 3, w, h, TRUE)
      [] kind = "not_tiff" -> [Cmyk8File(w, h) EXCEPT !.tiff = FALSE]
      [] kind = "missing"  -> [Cmyk8File(w, h) EXCEPT !.exists = FALSE, !.tiff = FALSE]
      [] kind = "no_tags"  -> TiffFile(ColorType("CMYK", 8), 4, w, h, FALSE)

\* The geometry <<width, height>> of the good files of the general runs.
Baselines == {<<4, 3>>}

\* --lpi: 0 stands for every value that is not positive.
LpiValues == {<<0, 1>>, <<1, 1>>, <<2, 1>>}

\* --output-width: 0 (not positive), 2, 2.54 and 3.
OutputWidthValues == {<<0, 1>>, <<2, 1>>, <<127, 50>>, <<3, 1>>}

\* The lists of n files: all good, or all good but one.
InputLists(n, w, h) ==
    {[k \in 1..n |-> Cmyk8File(w, h)]}
    \cup {[k \in 1..n |-> IF k = p THEN OddFile(kind, w, h) ELSE Cmyk8File(w, h)] :
            p \in 1..n, kind \in OddKinds}

\* The command lines of the general runs.
GeneralCli ==
    {[input |-> files, lenticular_width |-> lw, no_auto_assign_width |-> na,
      lpi |-> l, output_width |-> ow] :
        files \in UNION {InputLists(n, b[1], b[2]) : n \in 0..MaxFiles, b \in Baselines},
        lw \in UNION {[1..n -> 0..MaxWidth] : n \in 0..MaxFiles},
        na \in BOOLEAN, l \in LpiValues, ow \in OutputWidthValues}

\* The end-to-end scenario: two 100 x 100 CMYK8 images, widths [1, 1], 10 LPI,
\* 2.54 cm, the widths taken as given.
EndToEndCli ==
    [input |-> <<Cmyk8File(100, 100), Cmyk8File(100, 100)>>,
     lenticular_width |-> <<1, 1>>, no_auto_assign_width |-> TRUE,
     lpi |-> <<10, 1>>, output_width |-> <<127, 50>>]

\* The normalizer harness when it is not used.
RestoreIdle == r_image = None /\ r_out = <<>> /\ r_resized = <<>>

\* The state of main before it does anything.
MainStart ==
    /\ pc = "validate"
    /\ err = NoError
    /\ failed_in = "none"
    /\ inputs = <<>>
    /\ output_info = None
    /\ delta = <<>>
    /\ best_lenticular_width = <<>>
    /\ output_img = None
    /\ input_index = 0
    /\ input_img = None
    /\ col_mapping = <<>>
    /\ col_index = 0
    /\ writes = <<>>
    /\ skipped = <<>>
    /\ output_file = NoFile
    /\ out_restored = None

Init ==
    /\ cli \in GeneralCli \cup {EndToEndCli}
    /\ MainStart
    /\ m_widths = <<>>
    /\ m_calls = <<>>
    /\ m_out = <<>>
    /\ RestoreIdle

Next ==
    \/ Validate
    \/ OpenInputs
    \/ CalcFirst
    \/ AutoAssign
    \/ SearchIter
    \/ ProcessBegin
    \/ ProcessImage
    \/ ProcessColumn
    \/ ProcessImageDone
    \/ ProcessEnd
    \/ OpenOutput
    \/ WriteEncoderNew
    \/ WriteRestore
    \/ WriteImage

Spec == Init /\ [][Next]_vars

\* --lpi of the runs that search: 0.5, 1 and 2.
SearchLpiValues == {<<1, 2>>, <<1, 1>>, <<2, 1>>}

\* The command lines of the runs that search: good files, positive widths,
\* an LPI of lpis and a positive physical width, the automatic width search
\* allowed.
SearchCliFor(lpis) ==
    UNION {{[input |-> [k \in 1..n |-> Cmyk8File(b[1], b[2])],
             lenticular_width |-> lw, no_auto_assign_width |-> FALSE,
             lpi |-> l, output_width |-> ow] :
               lw \in [1..n -> 1..MaxWidth], b \in Baselines,
               l \in lpis,
               ow \in {w \in OutputWidthValues : RPositive(w)}} :
           n \in 1..MaxFiles}

SearchCli == SearchCliFor(SearchLpiValues)

InitSearch ==
    /\ cli \in SearchCli
    /\ MainStart
    /\ m_widths = <<>>
    /\ m_calls = <<>>
    /\ m_out = <<>>
    /\ RestoreIdle

\* main is one sequential thread: a turn of the loop that can be taken is
\* taken.
SpecSearch == InitSearch /\ [][Next]_vars /\ WF_vars(SearchIter)

\* --lpi of the runs whose search is long: 0.25, and 1 for comparison.
LongSearchLpiValues == {<<1, 4>>, <<1, 1>>}

InitLongSearch ==
    /\ cli \in SearchCliFor(LongSearchLpiValues)
    /\ MainStart
    /\ m_widths = <<>>
    /\ m_calls = <<>>
    /\ m_out = <<>>
    /\ RestoreIdle

SpecLongSearch == InitLongSearch /\ [][Next]_vars

\* The stripe widths of the runs whose planned width is a whole multiple of
\* the total stripe width.
MultipleWidths == {<<1, 1>>, <<2, 1>>, <<3, 8>>, <<15, 7>>, <<7, 15>>}

\* The command lines of those runs: two good files, 1 LPI, 2.55 cm or 5.1 cm,
\* which plan 1 or 2 columns per unit of stripe width.
MultipleCli ==
    {[input |-> <<Cmyk8File(4, 3), Cmyk8File(4, 3)>>, lenticular_width |-> lw,
      no_auto_assign_width |-> na, lpi |-> <<1, 1>>, output_width |-> ow] :
        lw \in MultipleWidths, na \in BOOLEAN, ow \in {<<51, 20>>, <<51, 10>>}}

InitMultiple ==
    /\ cli \in MultipleCli
    /\ MainStart
    /\ m_widths = <<>>
    /\ m_calls = <<>>
    /\ m_out = <<>>
    /\ RestoreIdle

SpecMultiple == InitMultiple /\ [][Next]_vars

(***************************************************************************)
(* The mapper harness: a stripe-width table and two calls of the mapper    *)
(* on it.                                                                  *)
(***************************************************************************)
\* The calls of the unit test of the mapper, each followed by a second call.
ExampleCalls ==
    {<<<<3, 3>>, <<<<0, 12>>, <<1, 12>>>>>>,
     <<<<4, 4, 4>>, <<<<1, 12>>, <<2, 12>>>>>>,
     <<<<3, 3, 2>>, <<<<0, 12>>, <<2, 12>>>>>>}

\* The tables and calls drawn from the bounds.
BoundedCalls ==
    UNION {[1..n -> 1..MaxStripe] \X [1..2 -> (0..(n - 1)) \X (0..MaxCols)] :
             n \in 1..MaxImages}

InitMap ==
    /\ \E tc \in BoundedCalls \cup ExampleCalls :
          m_widths = tc[1] /\ m_calls = tc[2]
    /\ m_out = <<>>
    /\ RestoreIdle
    /\ cli = None
    /\ MainStart

\* The next call of create_line_index_mapping_advanced.
MapCall ==
    /\ Len(m_out) < Len(m_calls)
    /\ LET call == m_calls[Len(m_out) + 1]
       IN  m_out' = Append(m_out,
                 create_line_index_mapping_advanced(call[2], m_widths, call[1]))
    /\ UNCHANGED <<m_widths, m_calls, pc, err, failed_in, cli, inputs, output_info,
                   searchVars, processVars, writeVars, restoreVars>>

NextMap == MapCall

SpecMap == InitMap /\ [][NextMap]_vars

(***************************************************************************)
(* The normalizer harness: restore_resolution_cmyk8 called on an image,    *)
(* with or without DPI, and called again on what it returned.              *)
(***************************************************************************)
\* The DPI values of the harness: 1, 1.5, 2 and 3.
DpiValues == {<<1, 1>>, <<3, 2>>, <<2, 1>>, <<3, 1>>}

\* A MatrixImage of w x h pixels that name their source, row and column, with
\* the given DpiInfo (or None).
PatternImage(tag, w, h, info) ==
    [MatrixImageFromSlice(ResizedBytes(tag, w, h), w, h).val EXCEPT !.info = info]

\* The images given to the normalizer.
RestoreImages ==
    {PatternImage(tag, w, h, info) :
        tag \in 1..2, w \in 1..MaxSide, h \in 1..MaxSide,
        info \in {None} \cup {[dpi_h |-> a, dpi_w |-> b] : a, b \in DpiValues}}

InitRestore ==
    /\ r_image \in RestoreImages
    /\ r_out = <<>>
    /\ r_resized = <<>>
    /\ m_widths = <<>>
    /\ m_calls = <<>>
    /\ m_out = <<>>
    /\ cli = None
    /\ MainStart

\* restore_resolution_cmyk8 is called: first on the image, then on what the
\* first call returned.
RestoreCall ==
    /\ r_image # None
    /\ Len(r_out) < 2
    /\ r_out # <<>> => r_out[1].ok
    /\ LET image == IF r_out = <<>> THEN r_image ELSE r_out[1].val
       IN  /\ r_out' = Append(r_out, restore_resolution_cmyk8(image))
           /\ r_resized' = r_resized \o RestoreResizeCalls(image)
    /\ UNCHANGED <<r_image, pc, err, failed_in, cli, inputs, output_info,
                   searchVars, processVars, writeVars, mapperVars>>

NextRestore == RestoreCall

SpecRestore == InitRestore /\ [][NextRestore]_vars

(***************************************************************************)
(* Properties of the column mapper, checked under SpecMap.                 *)
(***************************************************************************)
\* The sum of the widths of a table before position k (counted from 0), by
\* counting unit columns: used to state the properties only.
WidthBefore(table, k) ==
    LET widest == CHOOSE w \in {table[j] : j \in 1..Len(table)} :
                      \A j \in 1..Len(table) : table[j] <= w
    IN  Cardinality({<<j, u>> \in (1..Len(table)) \X (1..widest) :
                        j <= k /\ u <= table[j]})

\* The vector the mapper is to return for call number n of the harness.
ExpectedMapping(n) ==
    LET img == m_calls[n][1]
        num_cols == m_calls[n][2]
        own == m_widths[img + 1]
        total == WidthBefore(m_widths, Len(m_widths))
        offset == WidthBefore(m_widths, img)
    IN  [k \in 1..num_cols |->
            ((k - 1) % own) + ((k - 1) \div own) * total + offset]

\* C1: for positive stripe widths, an image index inside the table and any
\* local width, the mapper returns local_width entries, entry r being
\* (r mod own) + (r div own) * total + offset; the three calls of the unit
\* test return the vectors the test states.
C1_MappingFormula ==
    /\ \A n \in 1..Len(m_out) :
          /\ Len(m_out[n]) = m_calls[n][2]
          /\ m_out[n] = ExpectedMapping(n)
    /\ (Len(m_out) >= 1 /\ m_calls[1][2] = 12) =>
          /\ (m_widths = <<3, 3>> /\ m_calls[1][1] = 0) =>
                m_out[1] = <<0, 1, 2, 6, 7, 8, 12, 13, 14, 18, 19, 20>>
          /\ (m_widths = <<4, 4, 4>> /\ m_calls[1][1] = 1) =>
                m_out[1] = <<4, 5, 6, 7, 16, 17, 18, 19, 28, 29, 30, 31>>
          /\ (m_widths = <<3, 3, 2>> /\ m_calls[1][1] = 0) =>
                m_out[1] = <<0, 1, 2, 8, 9, 10, 16, 17, 18, 24, 25, 26>>

\* C1 witness: the mapper has returned for the non-uniform table [3, 3, 2],
\* image 0, local width 12.
C1_Witness ==
    /\ m_widths = <<3, 3, 2>>
    /\ Len(m_out) >= 1
    /\ m_calls[1] = <<0, 12>>
    /\ Len(m_out[1]) = 12

\* C2: on one table of positive stripe widths, two different pairs
\* (image index, local column) never get the same destination column, within
\* one image and across two images, whatever the two local widths are.
C2_NoSharedDestination ==
    \A a \in 1..Len(m_out), b \in 1..Len(m_out) :
        \A r \in 1..Len(m_out[a]), t \in 1..Len(m_out[b]) :
            (<<m_calls[a][1], r>> # <<m_calls[b][1], t>>) =>
                m_out[a][r] # m_out[b][t]

\* C2 witness: the mapper has returned for two different images of a
\* non-uniform table, each vector reaching into a second group of stripes.
C2_Witness ==
    /\ Len(m_out) = 2
    /\ m_calls[1][1] # m_calls[2][1]
    /\ m_widths[m_calls[1][1] + 1] # m_widths[m_calls[2][1] + 1]
    /\ Len(m_out[1]) > m_widths[m_calls[1][1] + 1]
    /\ Len(m_out[2]) > m_widths[m_calls[2][1] + 1]

(***************************************************************************)
(* Properties of a run of the command line tool, checked under Spec.       *)
(***************************************************************************)
\* The positions of main after process_tiff_cmyk8 has returned Ok.
AfterProcess == {"open_output", "encoder", "restore", "encode", "done"}

\* The widest stripe of a table: used to state the properties only.
Widest(table) ==
    CHOOSE w \in {table[j] : j \in 1..Len(table)} :
        \A j \in 1..Len(table) : table[j] <= w

\* The step of the column loop at a column whose destination is past the edge.
AtDroppedColumn ==
    /\ pc = "columns"
    /\ col_index < input_img.width
    /\ At(col_mapping, col_index) >= output_img.width

\* C3: a local column whose destination is >= the composite width is
\* skipped: the composite is left as it is (nothing is written, nothing
\* wraps), the loop goes on with the next column without an error, and every
\* column ever written has a destination in 0..composite_width-1.
C3_DroppedColumns ==
    /\ [](/\ \A n \in 1..Len(writes) :
                writes[n][3] >= 0 /\ writes[n][3] < output_img.width
          /\ \A n \in 1..Len(skipped) : skipped[n][3] >= output_img.width)
    /\ [][AtDroppedColumn =>
             /\ output_img' = output_img
             /\ writes' = writes
             /\ col_index' = col_index + 1
             /\ pc' = "columns"
             /\ err' = NoError]_vars

\* C3 witness: a run that skipped a column has ended with success.
C3_Witness ==
    /\ pc = "done"
    /\ Len(skipped) >= 1
    /\ err = NoError

\* C4: after process_tiff_cmyk8 has succeeded, for every image i and every
\* local column of its resampled buffer whose destination d is inside the
\* composite, column d of the composite holds that column of image i, in
\* every row and every channel.  The local width is floor(own / total * W) and
\* the resampler's pattern gives pixel (row, col) of image i the channels
\* (i + 1, row, col, 255).
C4_CompositeContent ==
    (pc \in AfterProcess) =>
        LET table == WidthTable(inputs)
            total == WidthBefore(table, Len(table))
        IN  \A i \in 0..(Len(inputs) - 1) :
              LET own == table[i + 1]
                  local == (own * output_img.width) \div total
                  offset == WidthBefore(table, i)
              IN  \A col \in 0..(local - 1) :
                    LET d == (col % own) + (col \div own) * total + offset
                    IN  d < output_img.width =>
                          \A row \in 0..(output_img.height - 1) :
                             output_img.mat[d][row] =
                                [c |-> i + 1, m |-> row, y |-> col, k |-> 255]

\* C4 witness: process_tiff_cmyk8 has succeeded on two images with several
\* rows, several columns written for each and one column dropped.
C4_Witness ==
    /\ pc = "open_output"
    /\ Len(inputs) = 2
    /\ output_img.height >= 2
    /\ Len(writes) >= 4
    /\ Len(skipped) >= 1

\* C5: the plan of calc_output_info, for baseline bw x bh, positive widths
\* with maximum W_max and sum T, lpi = ln / ld and physical width pn / pd cm:
\* dpi_h = lpi * W_max, dpi_w = dpi_h * T / W_max,
\* width = floor(bw * f * T / W_max) and height = floor(bh * f) with
\* f = dpi_h * (cm * 0.3937) / bw, written out over the integers (bw and W_max
\* cancel in the width); the source geometry is the baseline image's.
C5_PlanFormula ==
    (output_info # None) =>
        LET table == WidthTable(inputs)
            W_max == Widest(table)
            T == WidthBefore(table, Len(table))
            base == inputs[1].file
            ln == cli.lpi[1]
            ld == cli.lpi[2]
            pn == cli.output_width[1]
            pd == cli.output_width[2]
        IN  /\ output_info.dpi_h = Rat(ln * W_max, ld)
            /\ output_info.dpi_w = Rat(ln * W_max * T, ld * W_max)
            /\ output_info.width = (ln * pn * 3937 * T) \div (ld * pd * 10000)
            /\ output_info.height =
                  (base.height * ln * W_max * pn * 3937)
                      \div (ld * pd * 10000 * base.width)
            /\ output_info.source_params =
                  [color_type |-> base.color, width |-> base.width,
                   height |-> base.height]

\* C5 witness: a plan for two images of different stripe widths on a
\* baseline that is not square.
C5_Witness ==
    /\ output_info # None
    /\ Len(inputs) = 2
    /\ inputs[1].lenticular_width_px # inputs[2].lenticular_width_px
    /\ inputs[1].file.width # inputs[1].file.height
    /\ output_info.height >= 1

\* C6 (as claimed): the end-to-end scenario is planned as dpi_h = 10,
\* dpi_w = 20, width 20, height 10, and the normalized image is 20 x 20 at a
\* uniform DPI of 20.
C6_EndToEndAsClaimed ==
    (cli = EndToEndCli) =>
        /\ (output_info # None) =>
              /\ output_info.dpi_h = <<10, 1>>
              /\ output_info.dpi_w = <<20, 1>>
              /\ output_info.width = 20
              /\ output_info.height = 10
        /\ (out_restored # None) =>
              /\ out_restored.width = 20
              /\ out_restored.height = 20
              /\ out_restored.info = [dpi_h |-> <<20, 1>>, dpi_w |-> <<20, 1>>]

\* The permutations of 1..n.
Perms(n) == {p \in [1..n -> 1..n] : \A a, b \in 1..n : p[a] = p[b] => a = b}

\* C7: for every permutation of the stripe widths (the files staying as they
\* are), calc_output_info returns the same width, height, dpi_h and dpi_w.
C7_PermutationInvariant ==
    (output_info # None) =>
        \A p \in Perms(Len(inputs)) :
            LET table == WidthTable(inputs)
                permuted == ApplyWidths(inputs, [k \in 1..Len(inputs) |-> table[p[k]]])
                res == calc_output_info(permuted, cli.lpi, cli.output_width)
            IN  /\ res.ok
                /\ res.val.width = output_info.width
                /\ res.val.height = output_info.height
                /\ res.val.dpi_h = output_info.dpi_h
                /\ res.val.dpi_w = output_info.dpi_w

\* C7 witness: a plan for two images whose stripe widths differ.
C7_Witness ==
    /\ output_info # None
    /\ pc = "auto"
    /\ Len(inputs) = 2
    /\ inputs[1].lenticular_width_px < inputs[2].lenticular_width_px

\* C8 (as claimed): when an image after the first differs from the baseline
\* in colour type, width or height, process_tiff_cmyk8 fails with
\* InvalidInput and at that moment the composite holds no pixel of any image
\* and the output destination is untouched.
C8_MismatchBeforeAnyPixel ==
    (/\ failed_in = "process_tiff_cmyk8"
     /\ input_index >= 1
     /\ At(inputs, input_index).file.tiff
     /\ ~is_matching_params(output_info.source_params,
            read_params_from_tiff(At(inputs, input_index).file, FALSE).val)) =>
        /\ err = "InvalidInput"
        /\ writes = <<>>
        /\ \A col \in 0..(output_img.width - 1), row \in 0..(output_img.height - 1) :
              output_img.mat[col][row] = ZeroPixel
        /\ output_file = NoFile

\* C9 (as claimed): a run that failed has left the output destination
\* untouched, and the destination is created or written only once every
\* earlier step, normalization included, has succeeded.
C9_NoOutputBeforeNormalization ==
    /\ (pc = "failed") => output_file = NoFile
    /\ (output_file # NoFile) => out_restored # None

\* C10 (as claimed): calc_output_info returns InvalidInput, and no plan, for
\* an empty input list and for a first stream that cannot be opened as an
\* image; process_tiff_cmyk8 returns InvalidInput for an empty input list.
C10_PlannerInvalidInput ==
    /\ (failed_in = "calc_output_info"
          /\ (Len(inputs) = 0 \/ ~inputs[1].file.tiff)) => err = "InvalidInput"
    /\ (failed_in = "process_tiff_cmyk8" /\ Len(inputs) = 0) => err = "InvalidInput"
    /\ (output_info # None) => (Len(inputs) > 0 /\ inputs[1].file.tiff)

(***************************************************************************)
(* Properties of the automatic width search.                               *)
(***************************************************************************)
\* The search has been entered in this run (its step is set when it starts).
Searched == Len(delta) > 0

\* The positions of main from the call of process_tiff_cmyk8 on.
AfterSearch == {"process", "image", "columns"} \cup AfterProcess

\* The planned height for the widths the inputs carry, written out over the
\* integers: floor(bh * lpi * W_max * cm * 0.3937 / bw).
PlannedHeight ==
    LET base == inputs[1].file
    IN  (base.height * cli.lpi[1] * Widest(WidthTable(inputs))
            * cli.output_width[1] * 3937)
          \div (cli.lpi[2] * cli.output_width[2] * 10000 * base.width)

GreatestDivisor(table) ==
    LET Divides(d) == \A i \in 1..Len(table) : table[i] % d = 0
    IN  CHOOSE d \in 1..Widest(table) :
            Divides(d) /\ \A e \in 1..Widest(table) : Divides(e) => e <= d

\* The table is m times the step of the search, for one integer m >= g.
KeepsRatio(table, initial) ==
    LET g == GreatestDivisor(initial)
    IN  /\ Len(table) = Len(initial)
        /\ \E m \in g..Widest(table) :
              \A i \in 1..Len(table) : table[i] * g = m * initial[i]
        /\ \A i, j \in 1..Len(table) :
              table[i] * initial[j] = table[j] * initial[i]

\* C12: in every turn of the automatic width search and in its result the
\* widths keep the ratio of the widths given: with g their gcd and
\* delta_i = initial_i / g, the widths tried, the widths stored in the inputs
\* and the widths main goes on with are m * delta_i for one integer m >= g.
C12_SearchKeepsRatio ==
    Searched =>
        LET initial == cli.lenticular_width
        IN  /\ \A i \in 1..Len(initial) :
                  delta[i] * GreatestDivisor(initial) = initial[i]
            /\ KeepsRatio(best_lenticular_width, initial)
            /\ KeepsRatio(WidthTable(inputs), initial)
            /\ (pc \in AfterSearch) => WidthTable(inputs) = best_lenticular_width

\* C12 witness: the search has ended after several turns on two widths that
\* differ.
C12_Witness ==
    /\ pc = "process"
    /\ Searched
    /\ Len(inputs) = 2
    /\ cli.lenticular_width[1] # cli.lenticular_width[2]
    /\ inputs[1].lenticular_width_px >= 3 * cli.lenticular_width[1]

\* The number of turns of the search that ended with larger widths.
SearchTurns ==
    IF Searched
    THEN (best_lenticular_width[1] - cli.lenticular_width[1]) \div delta[1]
    ELSE 0

\* The numbers of turns the search is followed beyond, for every width given.
SafetyBounds == 1..(MaxSearchWidth - MaxWidth)

\* C13 (as claimed): the search has a fixed bound on its turns: there is a
\* number of turns beyond which the search does not go on, ending with the
\* error SearchExhausted instead.
C13_SearchExhaustedAsClaimed ==
    \E bound \in SafetyBounds :
        SearchTurns > bound => (pc = "failed" /\ err = "SearchExhausted")

(***************************************************************************)
(* Properties of the compositor and the normalizer, checked under Spec.    *)
(***************************************************************************)
\* The positions of main once process_tiff_cmyk8 has made the composite.
Composing == {"image", "columns"} \cup AfterProcess

\* The writes of the history that went to composite column d.
WritesTo(d) == {n \in 1..Len(writes) : writes[n][3] = d}

\* C14: the columns are written image by image in input order, the columns
\* of one image in the order of its local columns, and every composite column
\* holds what the last write to it left (an image written later to the same
\* column replaces the earlier one); a column never written is zero.
C14_InputOrderLastWins ==
    (pc \in Composing) =>
        /\ \A n \in 1..(Len(writes) - 1) :
              \/ writes[n][1] < writes[n + 1][1]
              \/ writes[n][1] = writes[n + 1][1] /\ writes[n][2] < writes[n + 1][2]
        /\ \A n \in 1..Len(writes) : writes[n][1] <= input_index
        /\ \A d \in 0..(output_img.width - 1), row \in 0..(output_img.height - 1) :
              IF WritesTo(d) = {}
              THEN output_img.mat[d][row] = ZeroPixel
              ELSE LET last == CHOOSE n \in WritesTo(d) :
                                   \A k \in WritesTo(d) : k <= n
                   IN  output_img.mat[d][row] =
                          [c |-> writes[last][1] + 1, m |-> row,
                           y |-> writes[last][2], k |-> 255]

\* C14 witness: the composite of two images is complete, each image having
\* written several columns of several rows.
C14_Witness ==
    /\ pc = "open_output"
    /\ output_img.height >= 2
    /\ \E a, b \in 1..Len(writes) :
          a + 1 < b /\ writes[a][1] = 0 /\ writes[a + 1][1] = 0 /\ writes[b][1] = 1
    /\ \E a \in 1..(Len(writes) - 1) : writes[a][1] = 1 /\ writes[a + 1][1] = 1

(***************************************************************************)
(* Properties of restore_resolution_cmyk8, checked under SpecRestore.      *)
(***************************************************************************)
\* C15: a successful call on an image whose DPI differ, ratio = dpi_h / dpi_w:
\* for ratio > 1 the width becomes floor(width * ratio) and the height stays,
\* both DPI become dpi_h; otherwise the height becomes floor(height / ratio)
\* and the width stays, both DPI become dpi_w.
C15_RestoreGeometry ==
    (/\ Len(r_out) >= 1
     /\ r_out[1].ok
     /\ r_image.info # None
     /\ r_image.info.dpi_h # r_image.info.dpi_w) =>
        LET dh == r_image.info.dpi_h
            dw == r_image.info.dpi_w
            out == r_out[1].val
        IN  IF dh[1] * dw[2] > dw[1] * dh[2]
            THEN /\ out.width = (r_image.width * dh[1] * dw[2]) \div (dh[2] * dw[1])
                 /\ out.height = r_image.height
                 /\ out.info = [dpi_h |-> dh, dpi_w |-> dh]
            ELSE /\ out.height = (r_image.height * dh[2] * dw[1]) \div (dh[1] * dw[2])
                 /\ out.width = r_image.width
                 /\ out.info = [dpi_h |-> dw, dpi_w |-> dw]

\* C15 witness: an image of vertical DPI 2 and horizontal DPI 3 has been
\* normalized, its height 3 having grown to floor(4.5) = 4.
C15_Witness ==
    /\ Len(r_out) >= 1
    /\ r_out[1].ok
    /\ r_image.info = [dpi_h |-> <<2, 1>>, dpi_w |-> <<3, 1>>]
    /\ r_image.height = 3
    /\ r_out[1].val.height = 4

\* C16: with equal DPI the call returns the image as it is, without
\* resampling; and a call on the successful result of a call returns that
\* result as it is, without resampling.
C16_RestoreIdempotent ==
    /\ (/\ Len(r_out) >= 1
        /\ r_image.info # None
        /\ r_image.info.dpi_h = r_image.info.dpi_w) =>
            r_out[1] = Ok(r_image) /\ r_resized = <<>>
    /\ Len(r_out) = 2 =>
            /\ r_out[2] = r_out[1]
            /\ r_out[2].val.mat = r_out[1].val.mat
            /\ Len(r_resized) <= 1

\* C16 witness: the normalizer has been called on an image it had widened.
C16_Witness ==
    /\ Len(r_out) = 2
    /\ r_out[2].ok
    /\ r_out[1].val.width > r_image.width
    /\ Len(r_resized) = 1

\* C17: on an image without DPI the call returns InvalidInput and resamples
\* nothing.
C17_RestoreWithoutDpi ==
    (Len(r_out) >= 1 /\ r_image.info = None) =>
        /\ ~r_out[1].ok
        /\ r_out[1].kind = "InvalidInput"
        /\ r_resized = <<>>
        /\ Len(r_out) = 1

\* C17 witness: the normalizer has been called on an image of several pixels
\* without DPI.
C17_Witness ==
    /\ Len(r_out) = 1
    /\ r_image.info = None
    /\ r_image.width > 1
    /\ r_image.height > 1

(***************************************************************************)
(* Properties of the input checks, checked under Spec.                     *)
(***************************************************************************)
\* The decoded layout of a file is 8 bits per sample, 4 samples per pixel.
Cmyk8Layout(file) == file.color.bits = 8 /\ file.chans = 4

\* C18 as the claim states it: an input that decodes to another layout than
\* 8-bit 4-channel makes process_tiff_cmyk8 return InvalidInput, and none of
\* its columns is resampled or written.
C18_LayoutInvalidInput ==
    \A k \in 1..Len(inputs) :
        (inputs[k].file.tiff /\ ~Cmyk8Layout(inputs[k].file)) =>
            /\ \A n \in 1..Len(writes) : writes[n][1] # k - 1
            /\ \A n \in 1..Len(skipped) : skipped[n][1] # k - 1
            /\ input_index <= k - 1
            /\ (pc = "columns") => input_index # k - 1
            /\ (pc = "failed" /\ failed_in = "process_tiff_cmyk8"
                    /\ input_index = k - 1) => err = "InvalidInput"

\* The command line has a stripe width of 0, an LPI that is not positive or a
\* physical width that is not positive.
BadNumbers ==
    \/ \E k \in 1..Len(cli.lenticular_width) : cli.lenticular_width[k] = 0
    \/ ~(cli.lpi[1] > 0)
    \/ ~(cli.output_width[1] > 0)

\* C19: a run with such a command line goes from the validation of main
\* straight to an error of main: no input is opened, nothing is planned,
\* decoded or resampled, and the output file is not opened.
C19_BadNumbersRejected ==
    BadNumbers =>
        /\ pc \in {"validate", "failed"}
        /\ (pc = "failed") => (err = "Cli" /\ failed_in = "main")
        /\ inputs = <<>>
        /\ output_info = None
        /\ input_img = None
        /\ output_img = None
        /\ out_restored = None
        /\ output_file = NoFile

\* C19 witness: a run with existing inputs and good widths has ended in the
\* error because its physical width is 0.
C19_Witness ==
    /\ pc = "failed"
    /\ Len(cli.input) = 2
    /\ \A k \in 1..2 : cli.input[k].exists /\ cli.input[k].tiff
    /\ cli.lenticular_width = <<1, 2>>
    /\ cli.lpi = <<1, 1>>
    /\ cli.output_width = <<0, 1>>

(***************************************************************************)
(* The frame of the automatic width search, checked under SpecSearch.      *)
(***************************************************************************)
\* C20: a turn of the search loop leaves the command line (LPI, physical
\* width, the widths as supplied), the step, the baseline geometry, the files
\* and the read position of every input (all at the start, the first one
\* rewound) as they were, and touches nothing of the compositor or the
\* writer; only the stripe widths of the inputs, the widths tried and the
\* plan made from them change.
C20_SearchFrame ==
    [][(pc = "search") =>
          /\ cli' = cli
          /\ delta' = delta
          /\ Len(inputs') = Len(inputs)
          /\ \A k \in 1..Len(inputs) :
                /\ inputs'[k].file = inputs[k].file
                /\ inputs'[k].pos = inputs[k].pos
                /\ inputs'[k].pos = 0
          /\ (output_info' # None) =>
                output_info'.source_params = output_info.source_params
          /\ UNCHANGED <<processVars, writeVars>>]_vars

\* C20 witness: the loop has taken one turn that enlarged the widths of two
\* inputs and is about to take the next.
C20_Witness ==
    /\ pc = "search"
    /\ Len(inputs) = 2
    /\ Len(delta) = 2
    /\ best_lenticular_width[1] = cli.lenticular_width[1] + delta[1]
    /\ best_lenticular_width[2] = cli.lenticular_width[2] + delta[2]
    /\ inputs[1].lenticular_width_px = cli.lenticular_width[1]
    /\ inputs[1].pos = 0

SomeImageMapsTo(d) ==
    LET table == WidthTable(inputs)
        total == WidthBefore(table, Len(table))
    IN  \E i \in 1..Len(table) :
            \E c \in 0..(((table[i] * output_info.width) \div total) - 1) :
                (c % table[i]) + (c \div table[i]) * total
                    + WidthBefore(table, i - 1) = d

\* C22: the composite has output_info.width columns of output_info.height
\* rows from its creation on; the composite process_tiff_cmyk8 returns
\* carries the DPI of output_info, and its columns that no image maps to are
\* all zero.
C22_CompositeShape ==
    /\ (pc \in Composing) =>
          /\ output_img.width = output_info.width
          /\ output_img.height = output_info.height
          /\ DOMAIN output_img.mat = 0..(output_info.width - 1)
          /\ \A d \in DOMAIN output_img.mat :
                DOMAIN output_img.mat[d] = 0..(output_info.height - 1)
    /\ (pc \in AfterProcess) =>
          /\ output_img.info = [dpi_h |-> output_info.dpi_h,
                                dpi_w |-> output_info.dpi_w]
          /\ \A d \in 0..(output_info.width - 1) :
                ~SomeImageMapsTo(d) =>
                    \A row \in 0..(output_info.height - 1) :
                        output_img.mat[d][row] = ZeroPixel

\* C22 witness: process_tiff_cmyk8 has returned a composite of two images
\* with a column no image maps to and a column an image wrote.
C22_Witness ==
    /\ pc = "open_output"
    /\ Len(inputs) = 2
    /\ output_info.width # output_info.height
    /\ \E d \in 0..(output_info.width - 1) : ~SomeImageMapsTo(d)
    /\ \E d \in 0..(output_info.width - 1) : output_img.mat[d][0] # ZeroPixel

(***************************************************************************)
(* Properties of the plans of the automatic width search, checked under    *)
(* SpecSearch.                                                             *)
(***************************************************************************)
\* C23: a turn of the search loop never plans a smaller height than the plan
\* before it (the first plan of main, or the plan of the turn before).
C23_HeightNeverDecreases ==
    [][(pc = "search" /\ pc' # "failed") =>
          output_info'.height >= output_info.height]_vars

\* C23 witness: the loop has taken at least two turns, the last of which
\* planned a height above 0 and still below the baseline's.
C23_Witness ==
    /\ pc = "search"
    /\ Searched
    /\ best_lenticular_width[1] >= cli.lenticular_width[1] + 2 * delta[1]
    /\ output_info.height >= 1
    /\ output_info.height < output_info.source_params.height

(***************************************************************************)
(* Properties of write_tiff_cmyk8, checked under Spec.                     *)
(***************************************************************************)
\* C24: nothing of the image is given to the encoder before the composite is
\* normalized, and what is given is the normalized image: for a composite of
\* DPI (dpi_h, dpi_w), dpi_h below dpi_w, the width of the composite, the
\* height floor(height * dpi_w / dpi_h), the resampled pixels, and resolution
\* tags that are both dpi_w; for equal DPI, the composite itself.  The X and Y
\* resolution tags written are equal.
C24_EncodesNormalized ==
    /\ (pc # "done") =>
          output_file.dims = None /\ output_file.tags = None /\ output_file.data = <<>>
    /\ (pc = "done") =>
        LET dh == output_img.info.dpi_h
            dw == output_img.info.dpi_w
            height == IF dh = dw THEN output_img.height
                      ELSE (output_img.height * dw[1] * dh[2]) \div (dw[2] * dh[1])
            res == <<(dw[1] * 10000) \div dw[2], 10000>>
        IN  /\ dh[1] * dw[2] <= dw[1] * dh[2]
            /\ output_file.dims = [width |-> output_img.width, height |-> height]
            /\ output_file.tags # None
            /\ output_file.tags.XResolution = output_file.tags.YResolution
            /\ output_file.tags.XResolution = res
            /\ Len(output_file.data) = 4 * output_img.width * height
            /\ output_file.data =
                  IF dh = dw THEN to_bytes(output_img)
                  ELSE ResizedBytes(0, output_img.width, height)

\* C24 witness: a composite of two images, its DPI unequal, has been encoded
\* taller than process_tiff_cmyk8 made it.
C24_Witness ==
    /\ pc = "done"
    /\ Len(inputs) = 2
    /\ output_img.info.dpi_h # output_img.info.dpi_w
    /\ output_file.dims.height > output_img.height
    /\ output_file.tags # None

(***************************************************************************)
(* Properties of the plan main passes on, checked under Spec.              *)
(***************************************************************************)
\* C25: when main is about to call process_tiff_cmyk8, the OutputInfo it
\* holds is what calc_output_info returns for the inputs as they are then,
\* whether the search was disabled, not needed, or run.
C25_PlanMatchesWidths ==
    (pc = "process") =>
        LET res == calc_output_info(inputs, cli.lpi, cli.output_width)
        IN  /\ res.ok
            /\ output_info = res.val
            /\ cli.no_auto_assign_width => ~Searched
            /\ ~Searched => WidthTable(inputs) = cli.lenticular_width
            /\ Searched => WidthTable(inputs) = best_lenticular_width

\* C25 witness: main is about to call process_tiff_cmyk8 after a search of
\* several turns for two inputs of unequal widths.
C25_Witness ==
    /\ pc = "process"
    /\ Searched
    /\ Len(inputs) = 2
    /\ cli.lenticular_width[1] < cli.lenticular_width[2]
    /\ best_lenticular_width[1] >= cli.lenticular_width[1] + 2 * delta[1]

\* The widths after k steps of the search from the widths supplied.
WidthsAtStep(k) ==
    [i \in 1..Len(cli.lenticular_width) |->
        cli.lenticular_width[i]
          + k * (cli.lenticular_width[i] \div GreatestDivisor(cli.lenticular_width))]

\* The height planned for these widths, written out over the integers:
\* floor(bh * lpi * W_max * cm * 0.3937 / bw).
HeightAtStep(k) ==
    LET base == inputs[1].file
    IN  (base.height * cli.lpi[1] * Widest(WidthsAtStep(k))
            * cli.output_width[1] * 3937)
          \div (cli.lpi[2] * cli.output_width[2] * 10000 * base.width)

\* C26: the widths main composes with are the supplied widths when the search
\* is disabled or the first plan is tall enough; otherwise they are the
\* supplied widths plus k steps, for the smallest k whose planned height
\* reaches the baseline height.
C26_SmallestStep ==
    (pc \in AfterSearch) =>
        LET bh == inputs[1].file.height
        IN  IF cli.no_auto_assign_width \/ HeightAtStep(0) >= bh
            THEN ~Searched /\ WidthTable(inputs) = cli.lenticular_width
            ELSE /\ Searched
                 /\ \E k \in 0..MaxSearchWidth :
                       /\ WidthTable(inputs) = WidthsAtStep(k)
                       /\ HeightAtStep(k) >= bh
                       /\ \A j \in 0..(k - 1) : HeightAtStep(j) < bh

\* C26 witness: a search from the widths 2 and 2, whose step is 1 and 1, has
\* ended on widths that no number of steps of 2 reaches.
C26_Witness ==
    /\ pc = "process"
    /\ Searched
    /\ cli.lenticular_width = <<2, 2>>
    /\ inputs[1].lenticular_width_px % 2 = 1

(***************************************************************************)
(* Properties of the planned DPI, checked under Spec.                      *)
(***************************************************************************)
\* C27: every plan has dpi_w >= dpi_h, and dpi_w = dpi_h exactly when the sum
\* of the stripe widths is their maximum; so the normalization of a composite
\* never widens it: it returns the composite as it is (equal DPI) or a taller
\* image of the same width.
C27_NeverWidens ==
    /\ (output_info # None) =>
          LET table == WidthTable(inputs)
              dh == output_info.dpi_h
              dw == output_info.dpi_w
          IN  /\ dw[1] * dh[2] >= dh[1] * dw[2]
              /\ (dw = dh) <=> (WidthBefore(table, Len(table)) = Widest(table))
              /\ (dw = dh) <=> (Len(inputs) = 1)
    /\ (pc \in {"encode", "done"}) =>
          /\ out_restored.width = output_img.width
          /\ out_restored.height >= output_img.height
          /\ (output_info.dpi_w = output_info.dpi_h) =>
                out_restored = output_img
          /\ (output_info.dpi_w # output_info.dpi_h) =>
                out_restored.info = [dpi_h |-> output_info.dpi_w,
                                     dpi_w |-> output_info.dpi_w]
    /\ (pc = "failed") => failed_in # "write_tiff_cmyk8"

\* C27 witness: the composite of two images of stripe widths 1 and 2 has been
\* normalized to a taller image of the same width.
C27_Witness ==
    /\ pc = "encode"
    /\ WidthTable(inputs) = <<1, 2>>
    /\ out_restored.width = output_img.width
    /\ out_restored.height > output_img.height

(***************************************************************************)
(* The composite when the planned width is a whole multiple of the total   *)
(* stripe width, checked under SpecMultiple.                               *)
(***************************************************************************)
\* C28 as the claim states it: when output_info.width is a positive multiple
\* of the total stripe width T, the composite process_tiff_cmyk8 returns has
\* every column d written exactly once, by the image whose range of stripe
\* columns holds d mod T, and no local column was dropped.
C28_MultipleFillsEveryColumn ==
    LET table == WidthTable(inputs)
        T == WidthBefore(table, Len(table))
    IN  (/\ pc \in AfterProcess
         /\ output_info.width > 0
         /\ output_info.width % T = 0) =>
            /\ skipped = <<>>
            /\ \A d \in 0..(output_info.width - 1) :
                  /\ Cardinality(WritesTo(d)) = 1
                  /\ \A n \in WritesTo(d) :
                        LET i == writes[n][1]
                        IN  /\ WidthBefore(table, i) <= d % T
                            /\ d % T < WidthBefore(table, i + 1)

====
